---- MODULE Spec2Model ----
(***************************************************************************)
(* Exporter Flora (DwC-SMA, 3 hojas): the /export handler of src/main.py.  *)
(*                                                                         *)
(* export_excel -> generar_excel_fauna_like: three Firestore reads, the    *)
(* three template passes (Campaña, EstacionReplica, Ocurrencia), the write *)
(* into the template workbook and the save under /tmp/downloads.           *)
(*                                                                         *)
(* Every cell value is modelled by a string: a number by its decimal form  *)
(* (Num), Python's None and pandas' NaN by two reserved strings that no    *)
(* document value uses.                                                    *)
(***************************************************************************)
EXTENDS Integers, Sequences, FiniteSets, TLC

\* ------------------------------------------------------------------ bounds
MaxDocs    == 1   \* documents per collection read by one /export request
MaxEst     == 3   \* 'estacion' documents handed to the mapper alone
MaxReg     == 2   \* 'registro' documents handed to the mapper alone
MaxExports == 2   \* /export requests served in one run
NumSuffix  == 2   \* distinct values of uuid4().hex[:6] (16^6 in the code)
MaxTplRows == 2   \* data rows the template holds below each header

\* ------------------------------------------------------------------ values
None == "<None>"
NaN  == "<NaN>"
Num(n) == ToString(n)

\* pd.notna / pd.isna on a scalar
notna(v) == v \notin {None, NaN}

\* Series.astype(str): None -> 'None', NaN -> 'nan', a string is itself
astype_str(v) == IF v = None THEN "None" ELSE IF v = NaN THEN "nan" ELSE v

\* All sequences over S of length at most n
SeqsUpTo(S, n) == UNION {[1..k -> S] : k \in 0..n}

\* pd.DataFrame(rows): the columns are the union of the documents' keys, and
\* a key a document lacks reads NaN in its row.
DataFrame(rows) ==
    LET cols == UNION {DOMAIN rows[i] : i \in DOMAIN rows}
    IN [columns |-> cols,
        rows |-> [i \in DOMAIN rows |->
                    [c \in cols |-> IF c \in DOMAIN rows[i] THEN rows[i][c] ELSE NaN]]]

\* DataFrame.empty
empty(df) == df.rows = <<>> \/ df.columns = {}

\* ------------------------------------------------------- documents (inputs)
\* GeoPoint values a document may hold, with their coordinates
GeoPoints == ("P1" :> [latitude |-> "-33.45", longitude |-> "-70.66"])

\* datetimes a document may hold (already tz-stripped by strip_tz)
Datetimes == ("2023-06-15T10:00:00" :> [year |-> 2023, month |-> 6, day |-> 15])

CampanaDocs ==
    { [name |-> "Campaña 1", ncampana |-> "7",
       startDateCamp |-> "2023-06-15T10:00:00", endDateCamp |-> "sin fecha"],
      [name |-> "Campaña 2"] }

EstacionNames == {"A", "B"}
EstacionIds   == {"s1", "s2"}

\* An 'estacion' document: name and estacionID are each present or missing.
EstacionDocs ==
    LET base == [tipoMonitoreo |-> "Flora", coordinatesPlani |-> "P1"]
    IN  { base @@ nm @@ sid :
            nm  \in {<< >>} \cup {[name |-> x] : x \in EstacionNames},
            sid \in {<< >>} \cup {[estacionID |-> x] : x \in EstacionIds} }

\* A 'registro' document: estacionID is missing, null, or a station id; the
\* document also carries a field named like an output column.
RegistroDocs ==
    LET base == [comentarios |-> "obs", Reino |-> "Plantae",
                 coordinatesReg |-> "P1"]
                @@ ("Identificado por" :> "Otro")
    IN  { base @@ sid :
            sid \in {<< >>} \cup {[estacionID |-> x] : x \in EstacionIds \cup {None}} }


\* ------------------------------------------------------------ Python dicts
\* (a variant in which a key written twice keeps the value written first)
dict_literal_first(items) ==
    [k \in {items[i][1] : i \in DOMAIN items} |->
        items[CHOOSE i \in DOMAIN items :
                /\ items[i][1] = k
                /\ \A j \in DOMAIN items : items[j][1] = k => j >= i][2]]

\* A dict literal, read from its (key, value) items: a key written twice
\* keeps the value written last.
dict_literal(items) ==
    [k \in {items[i][1] : i \in DOMAIN items} |->
        items[CHOOSE i \in DOMAIN items :
                /\ items[i][1] = k
                /\ \A j \in DOMAIN items : items[j][1] = k => j <= i][2]]

\* list(d.keys()) of a dict literal whose keys are distinct
keys(items) == [i \in DOMAIN items |-> items[i][1]]

\* ---------------------------------------------------------- the field maps
CAMPANA_MAP_items ==
    << <<"Nombre campaña", "name">>,
       <<"Número de campaña", "ncampana">>,
       <<"Fecha inicio", "startDateCamp">>,
       <<"Fecha término", "endDateCamp">> >>
CAMPANA_MAP == dict_literal(CAMPANA_MAP_items)

numeros_campana_items ==
    << <<"ID Campaña", 1>>,
       <<"Nombre campaña", 2>>,
       <<"Número de campaña", 3>>,
       <<"Año inicio", 4>>,
       <<"Mes inicio", 5>>,
       <<"Día inicio", 6>>,
       <<"Año término", 7>>,
       <<"Mes término", 8>>,
       <<"Día término", 9>>,
       <<"Objetivo de la campaña", 10>>,
       <<"Comentarios adicionales", 11>> >>
numeros_campana == dict_literal(numeros_campana_items)

ESTACION_MAP_items ==
    << <<"ID Campaña", None>>,
       <<"Nombre estación", "name">>,
       <<"Tipo de monitoreo", "tipoMonitoreo">>,
       <<"Número Réplica", None>>,
       <<"Descripción EstacionReplica", "comentario">>,
       <<"Superficie (m2)", "tamano">>,
       <<"Latitud decimal central", "coordinatesPlani">>,
       <<"Longitud decimal central", "coordinatesPlani">>,
       <<"Región", "region">>,
       <<"Provincia", "provincia">>,
       <<"Comuna", "comuna">>,
       <<"Localidad", "localidad">>,
       <<"Ecosistema nivel 1", "cobertura1">>,
       <<"Ecosistema nivel 2", "cobertura2">>,
       <<"estacionID", "estacionID">> >>
ESTACION_MAP == dict_literal(ESTACION_MAP_items)

numeros_estacion_items ==
    << <<"ID Campaña", 1>>,
       <<"Nombre estación", 2>>,
       <<"Tipo de monitoreo", 3>>,
       <<"Número Réplica", 4>>,
       <<"Descripción EstacionReplica", 5>>,
       <<"Superficie (m2)", 9>>,
       <<"Latitud decimal central", 10>>,
       <<"Longitud decimal central", 11>>,
       <<"Región", 16>>,
       <<"Provincia", 17>>,
       <<"Comuna", 18>>,
       <<"Localidad", 19>>,
       <<"Ecosistema nivel 1", 20>>,
       <<"Ecosistema nivel 2", 21>> >>
numeros_estacion == dict_literal(numeros_estacion_items)

REGISTRO_MAP_items ==
    << <<"ID Campaña", None>>,
       <<"AUTOCOMPLETADO NombreCampaña", "valor">>,
       <<"ID EstacionReplica", "Número Réplica">>,
       <<"AUTOCOMPLETADO NombreEstacion-Número Replica-Tipo de monitoreo", None>>,
       <<"Año del evento", "registroAnoDate">>,
       <<"Mes del evento", "registrosMesDate">>,
       <<"Día del evento", "registrosDiaDate">>,
       <<"Hora inicio evento (hh:mm)", "registrosHoraDate">>,
       <<"Protocolo de muestreo", "protocoloMuestreo">>,
       <<"Tamaño de la muestra", "tamanoEst">>,
       <<"Unidad del tamaño de la muestra", "unidadDeLaMuestra">>,
       <<"Esfuerzo de muestreo", None>>,
       <<"Profundidad (m)", None>>,
       <<"Comentarios del evento", "comentarios">>,
       <<"Reino", "Reino">>,
       <<"Filo o división", None>>,
       <<"Clase", "clase">>,
       <<"Orden", None>>,
       <<"Familia", "familia">>,
       <<"Género", "genero">>,
       <<"Subgénero", None>>,
       <<"Epíteto específico", None>>,
       <<"Epíteto infraespecífico", None>>,
       <<"Nombre común", None>>,
       <<"Comentarios del taxón", None>>,
       <<"Estado del organismo", "estadoDelOrganismo">>,
       <<"Tipo de componente abiótico", "tipoDeComponente">>,
       <<"Parámetro", "parametro">>,
       <<"Tipo de cuantificación", "tipoCuantificacion">>,
       <<"Valor", "nInd">>,
       <<"Unidad de valor", "unidadDeValor">>,
       <<"Latitud decimal registro", "coordinatesReg">>,
       <<"Longitud decimal registro", "coordinatesReg">>,
       <<"Hora registro", "registrosHoraDate">>,
       <<"Condición reproductiva", None>>,
       <<"Sexo (Fauna)", None>>,
       <<"Etapa de vida (Fauna)", None>>,
       <<"Comportamiento (Fauna)", None>>,
       <<"Hábito de crecimiento (Flora)", "habito">>,
       <<"Propiedades dinámicas", "valor">>,
       <<"Tipo de registro", "tipoDeRegistro">>,
       <<"Código individuo", None>>,
       <<"Comentarios del registro biológico", None>>,
       <<"Muestreado por", None>>,
       <<"Identificado por", None>>,
       <<"Comentarios de la Identificación", None>>,
       <<"Observaciones adicionales", None>> >>
REGISTRO_MAP == dict_literal(REGISTRO_MAP_items)

\* Punto E: position 43 is written twice in the literal (44 never is)
numero_registro_items ==
    << <<1, "ID Campaña">>,
       <<2, "AUTOCOMPLETADO NombreCampaña">>,
       <<3, "ID EstacionReplica">>,
       <<4, "AUTOCOMPLETADO NombreEstacion-Número Replica-Tipo de monitoreo">>,
       <<5, "Año del evento">>,
       <<6, "Mes del evento">>,
       <<7, "Día del evento">>,
       <<8, "Hora inicio evento (hh:mm)">>,
       <<9, "Protocolo de muestreo">>,
       <<10, "Tamaño de la muestra">>,
       <<11, "Unidad del tamaño de la muestra">>,
       <<12, "Esfuerzo de muestreo">>,
       <<13, "Profundidad (m)">>,
       <<14, "Comentarios del evento">>,
       <<15, "Reino">>,
       <<16, "Filo o división">>,
       <<17, "Clase">>,
       <<18, "Orden">>,
       <<19, "Familia">>,
       <<20, "Género">>,
       <<21, "Subgénero">>,
       <<22, "Epíteto específico">>,
       <<23, "Epíteto infraespecífico">>,
       <<24, "Nombre común">>,
       <<25, "Comentarios del taxón">>,
       <<26, "Estado del organismo">>,
       <<27, "Tipo de componente abiótico">>,
       <<28, "Parámetro">>,
       <<29, "Tipo de cuantificación">>,
       <<30, "Valor">>,
       <<31, "Unidad de valor">>,
       <<32, "Latitud decimal registro">>,
       <<33, "Longitud decimal registro">>,
       <<34, "Hora registro">>,
       <<35, "Condición reproductiva">>,
       <<36, "Sexo (Fauna)">>,
       <<37, "Etapa de vida (Fauna)">>,
       <<38, "Comportamiento (Fauna)">>,
       <<39, "Hábito de crecimiento (Flora)">>,
       <<40, "Propiedades dinámicas">>,
       <<41, "Tipo de registro">>,
       <<42, "Código individuo">>,
       <<43, "Comentarios del registro biológico">>,
       <<43, "Muestreado por">>,
       <<45, "Identificado por">>,
       <<46, "Comentarios de la Identificación">>,
       <<47, "Observaciones adicionales">> >>
numero_registro == dict_literal(numero_registro_items)

\* ------------------------------------------------------------------ utils
\* The characters of the model's campaign identifiers that are \w
WordChars == {"c", "1", "_"}

RECURSIVE skip_unsafe(_)
skip_unsafe(s) ==
    IF s # << >> /\ Head(s) \notin WordChars \cup {"-"} THEN skip_unsafe(Tail(s)) ELSE s

\* re.sub(r"[^\w\-]+", "-", s): each maximal run of other characters -> "-"
RECURSIVE re_sub(_)
re_sub(s) ==
    IF s = << >> THEN << >>
    ELSE IF Head(s) \in WordChars \cup {"-"} THEN <<Head(s)>> \o re_sub(Tail(s))
    ELSE <<"-">> \o re_sub(skip_unsafe(Tail(s)))

RECURSIVE lstrip(_)
lstrip(s) == IF s # << >> /\ Head(s) = "-" THEN lstrip(Tail(s)) ELSE s

RECURSIVE rstrip(_)
rstrip(s) ==
    IF s # << >> /\ s[Len(s)] = "-" THEN rstrip(SubSeq(s, 1, Len(s) - 1)) ELSE s

_safe_filename(s) ==
    LET t == rstrip(lstrip(re_sub(s)))
    IN  IF t = << >> THEN <<"f", "i", "l", "e">> ELSE t

get_lat(p) ==
    IF ~notna(p) THEN None
    ELSE IF p \in DOMAIN GeoPoints THEN GeoPoints[p].latitude ELSE None

get_lon(p) ==
    IF ~notna(p) THEN None
    ELSE IF p \in DOMAIN GeoPoints THEN GeoPoints[p].longitude ELSE None

\* fetch_by_campana: the matching documents in stream order, each with its
\* document id under "id", as a DataFrame
fetch_by_campana(docs) ==
    DataFrame([i \in DOMAIN docs |-> ("id" :> Num(i)) @@ docs[i]])

\* ------------------------------------------------------------ pandas builds
\* Two behaviours of pandas differ between the versions the unpinned import
\* can resolve to: what an object column holds after df.loc[i, c] = None, and
\* what groupby(..).cumcount() gives a row whose key is null.
Builds == [none_as : {None, NaN}, cumcount_na : {"nan", "group"}]

\* df.loc[i, col_name] = cellValue: the value the frame holds afterwards
loc_set(b, v) == IF v = None THEN b.none_as ELSE v

\* ------------------------------------------------------------ Campaña pass
NaT == "<NaT>"

\* pd.to_datetime(v, errors="coerce")
_to_dt(v) ==
    IF v = None THEN None
    ELSE IF v \in DOMAIN Datetimes THEN v
    ELSE NaT

_ymd(dt) ==
    IF dt \in DOMAIN Datetimes
    THEN <<Num(Datetimes[dt].year), Num(Datetimes[dt].month), Num(Datetimes[dt].day)>>
    ELSE <<None, None, None>>

\* camp.get(key)
dict_get(d, k) == IF k \in DOMAIN d THEN d[k] ELSE None

campana_pass(df_c) ==
    LET camp == df_c.rows[1]
        ini  == _ymd(_to_dt(dict_get(camp, CAMPANA_MAP["Fecha inicio"])))
        fin  == _ymd(_to_dt(dict_get(camp, CAMPANA_MAP["Fecha término"])))
    IN  << ("ID Campaña" :> Num(1))
           @@ ("Nombre campaña" :> dict_get(camp, CAMPANA_MAP["Nombre campaña"]))
           @@ ("Número de campaña" :> dict_get(camp, CAMPANA_MAP["Número de campaña"]))
           @@ ("Año inicio" :> ini[1]) @@ ("Mes inicio" :> ini[2]) @@ ("Día inicio" :> ini[3])
           @@ ("Año término" :> fin[1]) @@ ("Mes término" :> fin[2]) @@ ("Día término" :> fin[3])
           @@ ("Objetivo de la campaña" :> None)
           @@ ("Comentarios adicionales" :> None) >>

\* ----------------------------------------------------- EstacionReplica pass
estacion_cell(df_e, i, col_name) ==
    LET col == ESTACION_MAP[col_name]
        src == df_e.rows[i]
    IN  IF col_name = "ID Campaña" THEN Num(i)
        ELSE IF col_name = "Número Réplica" THEN Num(0)
        ELSE IF col_name = "Latitud decimal central"
             THEN IF col \in df_e.columns /\ notna(src[col]) THEN get_lat(src[col]) ELSE None
        ELSE IF col_name = "Longitud decimal central"
             THEN IF col \in df_e.columns /\ notna(src[col]) THEN get_lon(src[col]) ELSE None
        ELSE IF col # None /\ col \in df_e.columns /\ notna(src[col]) THEN src[col] ELSE None

\* (a variant without the .add(1): the count starts at 0)
cumcount_add_0(b, rows, i) ==
    LET key(j) == rows[j]["Nombre estación"]
    IN  IF notna(key(i))
        THEN Num(Cardinality({j \in 1..(i - 1) : key(j) = key(i)}))
        ELSE IF b.cumcount_na = "nan" THEN NaN
        ELSE Num(Cardinality({j \in 1..(i - 1) : ~notna(key(j))}))

\* groupby("Nombre estación").cumcount().add(1) at row i: the rows before i
\* in the same group, plus one. A null key belongs to no group (dropna):
\* the row gets NaN, or, in builds that count the null rows as one group,
\* its rank among them.
cumcount_add_1(b, rows, i) ==
    LET key(j) == rows[j]["Nombre estación"]
    IN  IF notna(key(i))
        THEN Num(Cardinality({j \in 1..(i - 1) : key(j) = key(i)}) + 1)
        ELSE IF b.cumcount_na = "nan" THEN NaN
        ELSE Num(Cardinality({j \in 1..(i - 1) : ~notna(key(j))}) + 1)

estacion_pass(b, df_e) ==
    LET cols  == keys(ESTACION_MAP_items)
        built == [i \in DOMAIN df_e.rows |->
                    [c \in {cols[k] : k \in DOMAIN cols} |->
                        loc_set(b, estacion_cell(df_e, i, c))]]
    IN  [columns |-> {cols[k] : k \in DOMAIN cols},
         rows |-> [i \in DOMAIN built |->
                     [built[i] EXCEPT !["Número Réplica"] = cumcount_add_1(b, built, i)]]]

\* ------------------------------------------- join with Número Réplica
\* left.merge(right[["estacionID", "Número Réplica"]], on="estacionID",
\* how="left"): the left rows in order, one output row per matching right
\* row (in right order), or one row with NaN when none matches.
RECURSIVE merge_left(_, _)
merge_left(left, right) ==
    IF left = << >> THEN << >>
    ELSE LET l == Head(left)
             Match(r) == r["estacionID"] = l["estacionID"]
             m == SelectSeq(right, Match)
         IN  (IF m = << >>
              THEN << ("Número Réplica" :> NaN) @@ l >>
              ELSE [k \in DOMAIN m |-> ("Número Réplica" :> m[k]["Número Réplica"]) @@ l])
             \o merge_left(Tail(left), right)

astype_str_col(rows, c) == [i \in DOMAIN rows |-> [rows[i] EXCEPT ![c] = astype_str(@)]]

\* the condition of the join: both frames have an estacionID column
can_join(df_ep, df_r) == "estacionID" \in df_ep.columns /\ "estacionID" \in df_r.columns

\* df_estacion_plantilla once the join has turned its estacionID into str
estacion_after_join(df_ep, df_r) ==
    IF can_join(df_ep, df_r)
    THEN [df_ep EXCEPT !.rows = astype_str_col(df_ep.rows, "estacionID")]
    ELSE df_ep

join_replica(df_ep, df_r) ==
    IF can_join(df_ep, df_r)
    THEN [columns |-> df_r.columns \cup {"Número Réplica"},
          rows |-> merge_left(astype_str_col(df_r.rows, "estacionID"),
                              astype_str_col(df_ep.rows, "estacionID"))]
    ELSE [columns |-> df_r.columns \cup {"Número Réplica"},
          rows |-> [i \in DOMAIN df_r.rows |-> ("Número Réplica" :> None) @@ df_r.rows[i]]]

\* ------------------------------------------------------------ Ocurrencia pass
\* the fields without a source that are filled with " "
Placeholders ==
    {"Esfuerzo de muestreo", "Profundidad (m)", "Filo o división", "Orden", "Subgénero",
     "Epíteto específico", "Epíteto infraespecífico", "Nombre común", "Comentarios del taxón",
     "Condición reproductiva", "Sexo (Fauna)", "Etapa de vida (Fauna)", "Comportamiento (Fauna)",
     "Código individuo", "Comentarios del registro biológico", "Muestreado por",
     "Identificado por", "Comentarios de la Identificación", "Observaciones adicionales"}

\* (a variant in which the two constant fields copy a source column of their
\* own name when the record has one)
registro_cell_source_first(df_r, i, col_name) ==
    LET col == REGISTRO_MAP[col_name]
        has == col \in df_r.columns /\ notna(df_r.rows[i][col])
    IN  IF col_name = "ID Campaña" THEN Num(1)
        ELSE IF col_name = "Latitud decimal registro"
             THEN IF has THEN get_lat(df_r.rows[i][col]) ELSE None
        ELSE IF col_name = "Longitud decimal registro"
             THEN IF has THEN get_lon(df_r.rows[i][col]) ELSE None
        ELSE IF col_name \in df_r.columns /\ notna(df_r.rows[i][col_name])
             THEN df_r.rows[i][col_name]
        ELSE IF col_name \in {"Identificado por", "Comentarios de la Identificación"}
             THEN "AMS Consultores"
        ELSE IF col = None
             THEN IF col_name \in Placeholders THEN " " ELSE None
        ELSE IF has THEN df_r.rows[i][col] ELSE None

registro_cell(df_r, i, col_name) ==
    LET col == REGISTRO_MAP[col_name]
        has == col \in df_r.columns /\ notna(df_r.rows[i][col])
    IN  IF col_name = "ID Campaña" THEN Num(1)
        ELSE IF col_name = "Latitud decimal registro"
             THEN IF has THEN get_lat(df_r.rows[i][col]) ELSE None
        ELSE IF col_name = "Longitud decimal registro"
             THEN IF has THEN get_lon(df_r.rows[i][col]) ELSE None
        ELSE IF col_name \in {"Identificado por", "Comentarios de la Identificación"}
             THEN "AMS Consultores"
        ELSE IF col = None
             THEN IF col_name \in Placeholders THEN " " ELSE None
        ELSE IF has THEN df_r.rows[i][col] ELSE None

registro_pass(b, df_r) ==
    LET cols == keys(REGISTRO_MAP_items)
    IN  [i \in DOMAIN df_r.rows |->
            [c \in {cols[k] : k \in DOMAIN cols} |-> loc_set(b, registro_cell(df_r, i, c))]]

\* ------------------------------------------------------------ the workbook
\* A worksheet is its cells: a function from <<row, column>> to a value.
\* The template's sheets: header rows with "hdr" cells, then n data rows
\* with "tpl" cells in the columns TplCols.
TplCols == {1, 12, 44}

template_sheet(header_rows, n) ==
    [rc \in (1..(header_rows + n)) \X TplCols |->
        IF rc[1] <= header_rows THEN "hdr" ELSE "tpl"]

\* load_workbook(TEMPLATE_PATH) for a template with n data rows per sheet
load_workbook(n) ==
    ("Campaña" :> template_sheet(2, n))
    @@ ("EstacionReplica" :> template_sheet(1, n))
    @@ ("Ocurrencia" :> template_sheet(2, n))

\* Worksheet.max_row
max_row(ws) ==
    IF DOMAIN ws = {} THEN 0
    ELSE CHOOSE r \in {rc[1] : rc \in DOMAIN ws} : \A rc \in DOMAIN ws : rc[1] <= r

\* Worksheet.delete_rows(idx, amount): the cells below the deleted rows move
\* up by amount, then the rows left over at the bottom are removed.
delete_rows(ws, idx, amount) ==
    LET top    == max_row(ws)
        gutter == {r \in 1..top : r >= top + 1 - amount /\ r >= idx /\ r <= idx + amount}
        moved  == {rc \in DOMAIN ws : rc[1] >= idx + amount}
        dom    == ((DOMAIN ws \ moved) \cup {<<rc[1] - amount, rc[2]>> : rc \in moved})
        after  == [rc \in dom |->
                     IF <<rc[1] + amount, rc[2]>> \in moved
                     THEN ws[<<rc[1] + amount, rc[2]>>] ELSE ws[rc]]
    IN  [rc \in {x \in dom : x[1] \notin gutter} |-> after[rc]]

\* the loop "for r ...: for col ...: ws.cell(row=r, column=c, value=v)":
\* table rows written from first_row on, field names placed by numbers
write_rows(ws, table, first_row, numbers) ==
    [rc \in (first_row..(first_row + Len(table) - 1)) \X DOMAIN numbers |->
        table[rc[1] - first_row + 1][numbers[rc[2]]]]
    @@ ws

\* a {name: number} dict read as number -> name
by_number(d) == [n \in {d[k] : k \in DOMAIN d} |-> CHOOSE k \in DOMAIN d : d[k] = n]

write_campana(wc, table) == write_rows(wc, table, 3, by_number(numeros_campana))

\* (a variant that writes over the template rows without deleting them)
write_estacion_keep(ws, table) == write_rows(ws, table, 2, by_number(numeros_estacion))

write_estacion(ws, table) ==
    write_rows(IF max_row(ws) > 1 THEN delete_rows(ws, 2, max_row(ws) - 1) ELSE ws,
               table, 2, by_number(numeros_estacion))

\* (a variant that deletes one row too few)
write_ocurrencia_short(wo, table) ==
    write_rows(IF max_row(wo) > 2 THEN delete_rows(wo, 3, max_row(wo) - 3) ELSE wo,
               table, 3, numero_registro)

write_ocurrencia(wo, table) ==
    write_rows(IF max_row(wo) > 2 THEN delete_rows(wo, 3, max_row(wo) - 2) ELSE wo,
               table, 3, numero_registro)

\* ------------------------------------------------------------------ state
CampanaIds == { <<"c", "1">>, <<"c", " ", "1">> }

\* The documents a request of the running service finds: one 'estacion' and
\* one 'registro' that name each other, and one of each without the fields.
EstacionSample ==
    {d \in EstacionDocs :
        \/ DOMAIN d \cap {"name", "estacionID"} = {}
        \/ /\ {"name", "estacionID"} \subseteq DOMAIN d
           /\ d["name"] = "A" /\ d["estacionID"] = "s1"}

RegistroSample ==
    {d \in RegistroDocs : "estacionID" \in DOMAIN d => d["estacionID"] = "s1"}

VARIABLES
    build,        \* the pandas build the service runs on
    template,     \* TEMPLATE_PATH: [exists, rows]
    downloads,    \* DOWNLOAD_DIR: file name -> [by, campana_id, complete]
    exports,      \* number of /export requests received
    pc,           \* where the current request is
    campana_id,
    df_campana, df_estacion, df_registro,      \* as fetched
    df_campana_plantilla, df_estacion_plantilla,
    df_registro_merged,                        \* df_registro after the join
    df_registro_plantilla,
    wb,           \* the workbook in memory
    out_name,     \* <<sanitized id, uuid suffix>>, or << >>
    outcome,      \* "200", "404", "500 plantilla", "500", or "" while running
    dir0          \* DOWNLOAD_DIR as it was when the current request arrived

vars == <<build, template, downloads, exports, pc, campana_id,
          df_campana, df_estacion, df_registro, df_campana_plantilla,
          df_estacion_plantilla, df_registro_merged, df_registro_plantilla,
          wb, out_name, outcome, dir0>>

locals == <<campana_id, df_campana, df_estacion, df_registro, df_campana_plantilla,
            df_estacion_plantilla, df_registro_merged, df_registro_plantilla, wb>>

NoFrame == [columns |-> {}, rows |-> << >>]

\* the template file: missing, or with no or with MaxTplRows data rows
Templates == {[exists |-> FALSE, rows |-> 0]}
             \cup {[exists |-> TRUE, rows |-> n] : n \in {0, MaxTplRows}}

NoRequest ==
    /\ campana_id = << >>
    /\ df_campana = NoFrame /\ df_estacion = NoFrame /\ df_registro = NoFrame
    /\ df_campana_plantilla = << >> /\ df_estacion_plantilla = NoFrame
    /\ df_registro_merged = NoFrame /\ df_registro_plantilla = << >>
    /\ wb = << >> /\ out_name = << >> /\ outcome = ""

Init ==
    /\ build \in Builds
    /\ template \in Templates
    /\ downloads = << >>
    /\ exports = 0
    /\ pc = "idle"
    /\ NoRequest
    /\ dir0 = << >>

\* The statuses of /export: 200 with a download_url, the two HTTPExceptions
\* of generar_excel_fauna_like, and the 500 export_excel makes of any other
\* exception.
Ok              == "200"
InternalError   == "500"
TemplateMissing == "500 plantilla"

\* (a variant in which the 404 is caught with the other exceptions)
NotFound_caught == InternalError

NotFound        == "404"

\* the request ends with a status (and, on 200, the file its URL names)
Finish(code, name) ==
    /\ pc' = "done"
    /\ outcome' = code
    /\ out_name' = name

\* GET /export?campana_id=...: the three reads of generar_excel_fauna_like
Fetch ==
    /\ pc = "idle"
    /\ exports < MaxExports
    /\ \E cid \in CampanaIds,
          c \in SeqsUpTo(CampanaDocs, MaxDocs),
          e \in SeqsUpTo(EstacionSample, MaxDocs),
          r \in SeqsUpTo(RegistroSample, MaxDocs) :
            /\ campana_id' = cid
            /\ df_campana' = fetch_by_campana(c)
            /\ df_estacion' = fetch_by_campana(e)
            /\ df_registro' = fetch_by_campana(r)
    /\ exports' = exports + 1
    /\ dir0' = downloads
    /\ pc' = "fetched"
    /\ UNCHANGED <<build, template, downloads, df_campana_plantilla,
                   df_estacion_plantilla, df_registro_merged, df_registro_plantilla,
                   wb, out_name, outcome>>

\* the 404 check and the three passes of the template mapper
Mapper ==
    /\ pc = "fetched"
    /\ IF empty(df_campana)
       THEN /\ Finish(NotFound, << >>)
            /\ UNCHANGED <<df_campana_plantilla, df_estacion_plantilla,
                           df_registro_merged, df_registro_plantilla>>
       ELSE /\ df_campana_plantilla' = campana_pass(df_campana)
            /\ df_estacion_plantilla' =
                   estacion_after_join(estacion_pass(build, df_estacion), df_registro)
            /\ df_registro_merged' =
                   join_replica(estacion_pass(build, df_estacion), df_registro)
            /\ df_registro_plantilla' = registro_pass(build, df_registro_merged')
            /\ pc' = "mapped"
            /\ UNCHANGED <<out_name, outcome>>
    /\ UNCHANGED <<build, template, downloads, exports, campana_id, df_campana,
                   df_estacion, df_registro, wb, dir0>>

\* the template check and the writes into the three sheets
Writer ==
    /\ pc = "mapped"
    /\ IF ~template.exists
       THEN /\ Finish(TemplateMissing, << >>)
            /\ wb' = wb
       ELSE /\ LET t == load_workbook(template.rows)
               IN  wb' = ("Campaña" :> write_campana(t["Campaña"], df_campana_plantilla))
                         @@ ("EstacionReplica" :>
                                write_estacion(t["EstacionReplica"], df_estacion_plantilla.rows))
                         @@ ("Ocurrencia" :>
                                write_ocurrencia(t["Ocurrencia"], df_registro_plantilla))
            /\ pc' = "written"
            /\ UNCHANGED <<out_name, outcome>>
    /\ UNCHANGED <<build, template, downloads, exports, campana_id, df_campana,
                   df_estacion, df_registro, df_campana_plantilla,
                   df_estacion_plantilla, df_registro_merged, df_registro_plantilla, dir0>>

\* Flora_<_safe_filename(campana_id)>_<uuid4().hex[:6]>.xlsx
file_name(cid, u) == <<_safe_filename(cid), u>>

\* wb.save(out_path): the file at out_path is created, or replaced
save(dir, name, by, cid, whole) ==
    (name :> [by |-> by, campana_id |-> cid, complete |-> whole]) @@ dir

\* the save under a fresh name and the response with the download URL
Save ==
    /\ pc = "written"
    /\ \E u \in 1..NumSuffix :
        LET name == file_name(campana_id, u)
        IN  /\ downloads' = save(downloads, name, exports, campana_id, TRUE)
            /\ Finish(Ok, name)
    /\ UNCHANGED <<build, template, exports, dir0, locals>>

\* the response is sent; the request's locals are gone
Respond ==
    /\ pc = "done"
    /\ pc' = "idle"
    /\ campana_id' = << >>
    /\ df_campana' = NoFrame /\ df_estacion' = NoFrame /\ df_registro' = NoFrame
    /\ df_campana_plantilla' = << >> /\ df_estacion_plantilla' = NoFrame
    /\ df_registro_merged' = NoFrame /\ df_registro_plantilla' = << >>
    /\ wb' = << >> /\ out_name' = << >> /\ outcome' = ""
    /\ UNCHANGED <<build, template, downloads, exports, dir0>>

Next == Fetch \/ Mapper \/ Writer \/ Save \/ Respond

Spec == Init /\ [][Next]_vars

\* one request served by a freshly started service, up to its outcome
NextRequest == Fetch \/ Mapper \/ Writer \/ Save

SpecRequest == Init /\ [][NextRequest]_vars

\* ----------------------------------------------------- the mapper alone
\* The template mapper applied to given frames, for a campaign that exists.
MapperInput(estaciones, registros) ==
    /\ build \in Builds
    /\ template = [exists |-> TRUE, rows |-> 0]
    /\ downloads = << >>
    /\ exports = 1
    /\ pc = "fetched"
    /\ campana_id = <<"c", "1">>
    /\ df_campana = fetch_by_campana(<<[name |-> "Campaña 2"]>>)
    /\ df_estacion \in {fetch_by_campana(e) : e \in estaciones}
    /\ df_registro \in {fetch_by_campana(r) : r \in registros}
    /\ df_campana_plantilla = << >> /\ df_estacion_plantilla = NoFrame
    /\ df_registro_merged = NoFrame /\ df_registro_plantilla = << >>
    /\ wb = << >> /\ out_name = << >> /\ outcome = ""
    /\ dir0 = << >>

\* up to MaxEst stations and MaxReg records
InitMapper == MapperInput(SeqsUpTo(EstacionDocs, MaxEst), SeqsUpTo(RegistroDocs, MaxReg))

SpecMapper == InitMapper /\ [][Mapper]_vars

\* up to MaxEst stations and no record
InitEstacion == MapperInput(SeqsUpTo(EstacionDocs, MaxEst), {<< >>})

SpecEstacion == InitEstacion /\ [][Mapper]_vars

\* ------------------------------------------------ the service with failures
\* One of the three Firestore reads raises: export_excel answers 500.
FetchFails ==
    /\ pc = "idle"
    /\ exports < MaxExports
    /\ \E cid \in CampanaIds : campana_id' = cid
    /\ exports' = exports + 1
    /\ dir0' = downloads
    /\ Finish(InternalError, << >>)
    /\ UNCHANGED <<build, template, downloads, df_campana, df_estacion, df_registro,
                   df_campana_plantilla, df_estacion_plantilla, df_registro_merged,
                   df_registro_plantilla, wb>>

\* wb.save raises: before the file is opened for writing (nothing on disk
\* changes) or while the archive is being written (the file stays, cut short).
SaveFails ==
    /\ pc = "written"
    /\ \E u \in 1..NumSuffix, opened \in BOOLEAN :
        /\ downloads' = IF opened
                        THEN save(downloads, file_name(campana_id, u), exports,
                                  campana_id, FALSE)
                        ELSE downloads
        /\ Finish(InternalError, << >>)
    /\ UNCHANGED <<build, template, exports, dir0, locals>>

NextFaults == Next \/ FetchFails \/ SaveFails

SpecFaults == Init /\ [][NextFaults]_vars

\* ------------------------------------------------------------ properties
\* the request has produced its outcome
Done == pc = "done"

\* the workbook has been written in memory (and, on 200, saved)
Written == pc = "written" \/ (pc = "done" /\ outcome = "200")

\* the rows of a sheet from row `first` on that hold a cell
DataRows(ws, first) == {rc[1] : rc \in {x \in DOMAIN ws : x[1] >= first}}

\* the cells of a sheet from row `first` on
DataCells(ws, first) == [rc \in {x \in DOMAIN ws : x[1] >= first} |-> ws[rc]]

\* the cells a mapped table fills: its rows from `first` on, by column number
TableCells(table, first, numbers) == write_rows(<< >>, table, first, numbers)

\* this request saved exactly one file, a complete workbook under out_name,
\* and every other file of the directory is as it was
OneSaved ==
    /\ out_name \in DOMAIN downloads
    /\ downloads[out_name] =
           [by |-> exports, campana_id |-> campana_id, complete |-> TRUE]
    /\ DOMAIN downloads = DOMAIN dir0 \cup {out_name}
    /\ \A f \in DOMAIN dir0 \ {out_name} : downloads[f] = dir0[f]

\* two values are the same cell content (any two absent values are)
SameValue(a, b) == a = b \/ (~notna(a) /\ ~notna(b))

\* C1: a request whose 'campana' read returned no document goes no further
\* than the 404 check: it ends with status 404, names no file, and the
\* download directory stays as the request found it.
C1_NotFound ==
    (pc \in {"fetched", "mapped", "written", "done"} /\ empty(df_campana))
        => /\ pc \in {"fetched", "done"}
           /\ downloads = dir0
           /\ wb = << >>
           /\ (Done => outcome = "404" /\ out_name = << >>)

C1_Witness ==
    /\ Done /\ outcome = "404"
    /\ empty(df_campana) /\ ~empty(df_estacion) /\ ~empty(df_registro)
    /\ exports = 2 /\ dir0 # << >> /\ downloads = dir0

\* C2: with a campaign, a template, and no station and/or no record, the
\* request ends 200 with exactly one workbook saved; EstacionReplica has no
\* cell below row 1 when there is no station, Ocurrencia none below row 2
\* when there is no record, whatever rows the template held.
C2_EmptySheets ==
    (Done /\ ~empty(df_campana) /\ template.exists
          /\ (empty(df_estacion) \/ empty(df_registro)))
        => /\ outcome = "200"
           /\ OneSaved
           /\ Cardinality({f \in DOMAIN downloads : downloads[f].by = exports}) = 1
           /\ (empty(df_estacion) => DataRows(wb["EstacionReplica"], 2) = {})
           /\ (empty(df_registro) => DataRows(wb["Ocurrencia"], 3) = {})

C2_Witness ==
    /\ Done /\ outcome = "200" /\ OneSaved
    /\ ~empty(df_campana) /\ empty(df_estacion) /\ empty(df_registro)
    /\ template.exists /\ template.rows > 0
    /\ DataRows(wb["EstacionReplica"], 2) = {}
    /\ DataRows(wb["Ocurrencia"], 3) = {}

\* the station rows keep the fetch order: row i is built from document i
EstacionOrderKept ==
    /\ Len(df_estacion_plantilla.rows) = Len(df_estacion.rows)
    /\ \A i \in DOMAIN df_estacion_plantilla.rows :
        LET row == df_estacion_plantilla.rows[i]
        IN  /\ row["ID Campaña"] = Num(i)
            /\ IF "name" \in df_estacion.columns /\ notna(df_estacion.rows[i]["name"])
               THEN row["Nombre estación"] = df_estacion.rows[i]["name"]
               ELSE ~notna(row["Nombre estación"])

\* the number of station rows before row i with the display name of row i
EarlierSameName(i) ==
    Cardinality({j \in 1..(i - 1) :
        df_estacion_plantilla.rows[j]["Nombre estación"]
            = df_estacion_plantilla.rows[i]["Nombre estación"]})

\* C3 as stated: after the station pass every row i, named or not, has
\* Número Réplica = 1 + the number of earlier rows with its display name, and
\* the rows are in fetch order.
C3_AsStated ==
    pc = "mapped"
        => /\ EstacionOrderKept
           /\ \A i \in DOMAIN df_estacion_plantilla.rows :
                df_estacion_plantilla.rows[i]["Número Réplica"]
                    = Num(1 + EarlierSameName(i))

\* C3 amended: after the station pass every row i whose display name is
\* present has Número Réplica = 1 + the number of earlier rows with that
\* display name, and the rows are in fetch order; a row without a display
\* name has no number, or its rank among the rows without one.
C3_NamedStations ==
    pc = "mapped"
        => /\ EstacionOrderKept
           /\ \A i \in DOMAIN df_estacion_plantilla.rows :
                LET row == df_estacion_plantilla.rows[i]
                IN  IF notna(row["Nombre estación"])
                    THEN row["Número Réplica"] = Num(1 + EarlierSameName(i))
                    ELSE row["Número Réplica"] \in {NaN, Num(1 + EarlierSameName(i))}

C3_Witness ==
    /\ pc = "mapped"
    /\ Len(df_estacion_plantilla.rows) = 3
    /\ [i \in 1..3 |-> df_estacion_plantilla.rows[i]["Nombre estación"]] = <<"A", "B", "A">>
    /\ [i \in 1..3 |-> df_estacion_plantilla.rows[i]["Número Réplica"]] = <<"1", "1", "2">>

\* the station identifier of fetched station j and of fetched record i
EstId(j) ==
    IF "estacionID" \in df_estacion.columns THEN df_estacion.rows[j]["estacionID"] ELSE NaN

RegId(i) ==
    IF "estacionID" \in df_registro.columns THEN df_registro.rows[i]["estacionID"] ELSE NaN

\* the stations whose identifier is present and equals, as a string, the
\* present identifier of record i
Matching(i) ==
    {j \in DOMAIN df_estacion.rows :
        notna(RegId(i)) /\ notna(EstId(j)) /\ astype_str(EstId(j)) = astype_str(RegId(i))}

\* the fetched record that row k of the joined frame comes from
RegSrc(k) ==
    CHOOSE i \in DOMAIN df_registro.rows :
        df_registro.rows[i]["id"] = df_registro_merged.rows[k]["id"]

\* C4: every Record-pass row carries in 'ID EstacionReplica' the Número
\* Réplica of a station whose identifier equals its record's, and an absent
\* value when the record's identifier is absent or matches no station.
C4_Join ==
    pc = "mapped"
        => \A k \in DOMAIN df_registro_plantilla :
            LET v == df_registro_plantilla[k]["ID EstacionReplica"]
                m == Matching(RegSrc(k))
            IN  IF m = {}
                THEN ~notna(v)
                ELSE \E j \in m :
                        SameValue(v, df_estacion_plantilla.rows[j]["Número Réplica"])

\* C5: the Record pass has one row per fetched record, the k-th row from the
\* k-th record.
C5_OneRowPerRecord ==
    pc = "mapped"
        => /\ Len(df_registro_plantilla) = Len(df_registro.rows)
           /\ \A k \in DOMAIN df_registro_plantilla :
                df_registro_merged.rows[k]["id"] = Num(k)

\* C6: a request that ends 200 has saved under a name that no earlier
\* request for the same campaign identifier had saved under.
C6_DistinctNames ==
    (Done /\ outcome = "200")
        => ~(out_name \in DOMAIN dir0 /\ dir0[out_name].campana_id = campana_id)

\* C7: a finished request has one of the four statuses; on 200 the URL names
\* the one complete workbook it saved, and on any other status the download
\* directory is as the request found it.
C7_NoPartialOutput ==
    Done
        => /\ outcome \in {"200", "404", "500 plantilla", "500"}
           /\ (outcome = "200" => OneSaved)
           /\ (outcome # "200" => downloads = dir0)

\* C8: every Record-pass row has "AMS Consultores" in 'Identificado por' and
\* in 'Comentarios de la Identificación', and these are the values of
\* columns 45 and 46 of every data row of Ocurrencia, one per row.
C8_ConstantFields ==
    /\ \A k \in DOMAIN df_registro_plantilla :
        /\ df_registro_plantilla[k]["Identificado por"] = "AMS Consultores"
        /\ df_registro_plantilla[k]["Comentarios de la Identificación"] = "AMS Consultores"
    /\ Written
        => /\ DataRows(wb["Ocurrencia"], 3) = 3..(Len(df_registro_plantilla) + 2)
           /\ \A r \in DataRows(wb["Ocurrencia"], 3) :
                /\ wb["Ocurrencia"][<<r, 45>>] = "AMS Consultores"
                /\ wb["Ocurrencia"][<<r, 46>>] = "AMS Consultores"

C8_Witness ==
    /\ Done /\ outcome = "200"
    /\ Len(df_registro_plantilla) >= 1
    /\ df_registro.rows[1]["Identificado por"] = "Otro"
    /\ wb["Ocurrencia"][<<3, 45>>] = "AMS Consultores"
    /\ wb["Ocurrencia"][<<3, 46>>] = "AMS Consultores"

\* C9: position 43 belongs to 'Muestreado por'; no position belongs to
\* 'Comentarios del registro biológico', the one field of the Record pass
\* without a position; in every data row of Ocurrencia column 43 holds the
\* row's 'Muestreado por' and the written columns are the declared
\* positions (so 44 is not among them).
C9_Position43 ==
    /\ numero_registro[43] = "Muestreado por"
    /\ \A n \in DOMAIN numero_registro :
        numero_registro[n] # "Comentarios del registro biológico"
    /\ Cardinality(DOMAIN REGISTRO_MAP
                    \ {numero_registro[n] : n \in DOMAIN numero_registro}) = 1
    /\ Written
        => \A k \in DOMAIN df_registro_plantilla :
            /\ wb["Ocurrencia"][<<k + 2, 43>>] = df_registro_plantilla[k]["Muestreado por"]
            /\ {rc[2] : rc \in {x \in DOMAIN wb["Ocurrencia"] : x[1] = k + 2}}
                   = DOMAIN numero_registro
            /\ 44 \notin DOMAIN numero_registro

C9_Witness ==
    /\ Done /\ outcome = "200"
    /\ template.rows > 0
    /\ Len(df_registro_plantilla) >= 1
    /\ wb["Ocurrencia"][<<3, 43>>] = df_registro_plantilla[1]["Muestreado por"]
    /\ <<3, 44>> \notin DOMAIN wb["Ocurrencia"]

\* the data cells of EstacionReplica and of Ocurrencia are those of the
\* mapped tables, and no other
StationAndRecordSheetsCleared ==
    /\ DataCells(wb["EstacionReplica"], 2)
           = TableCells(df_estacion_plantilla.rows, 2, by_number(numeros_estacion))
    /\ DataCells(wb["Ocurrencia"], 3)
           = TableCells(df_registro_plantilla, 3, numero_registro)

====
